---- MODULE Spec2Model ----
(***************************************************************************)
(* A model of the cellular-automaton engine of fifth:                      *)
(*   src/src/plane.py          Plane (bit plane, _flatten)                 *)
(*   src/src/configuration.py  Configuration (passes, moore, neumann)      *)
(*   src/src/ruleset.py        Ruleset (apply_to, _matches, _tolerates)    *)
(*                                                                         *)
(* Conventions.  A plane of shape <<d1, ..., dn>> is a sequence of         *)
(* d1*...*d(n-1) rows, each a sequence of dn bits; both are indexed from 0 *)
(* in the source and are functions over 0..k-1 here.  `cells' is the same  *)
(* plane as one flat array of bits (grid.flat of configuration.py).        *)
(* Names the source uses but never binds are read as follows: self.dimen   *)
(* (plane.py:95) is the plane's shape, self.N (ruleset.py:84) is the row   *)
(* width shape[-1], `it' is itertools, bitarray(n) is a fresh row of n     *)
(* bits of unspecified content, offset_totals (ruleset.py:106) is the list *)
(* `neighboring' built just above it, util.flatten is Plane._flatten.      *)
(***************************************************************************)
EXTENDS Integers, Sequences, FiniteSets, TLC

\* ------------------------------------------------------------------ bounds
MaxDim == 3
MaxCells == 4
MaxExtent == 2
MaxCalls == 2

Bit == {0, 1}

\* ------------------------------------------------------------ sequences
RECURSIVE SeqSum(_)
SeqSum(s) == IF s = <<>> THEN 0 ELSE Head(s) + SeqSum(Tail(s))

RECURSIVE Prod(_)
Prod(s) == IF s = <<>> THEN 1 ELSE Head(s) * Prod(Tail(s))

RECURSIVE Pow(_, _)
Pow(b, e) == IF e = 0 THEN 1 ELSE b * Pow(b, e - 1)

Range(s) == {s[i] : i \in DOMAIN s}

Front(s) == SubSeq(s, 1, Len(s) - 1)

\* tuples of length n over the set S
Tuples(S, n) == [1..n -> S]

\* ---------------------------------------------------------------- Plane
\* Plane._flatten: mixed-radix weighting of the coordinates, last axis
\* fastest; the coordinates are used as given (no reduction per axis).
RECURSIVE FlattenLoop(_, _, _, _, _)
FlattenLoop(coordinates, dimen, i, index, gridprod) ==
    IF i = 0 THEN index
    ELSE FlattenLoop(coordinates, dimen, i - 1,
                     index + coordinates[i] * gridprod, gridprod * dimen[i])

flatten(coordinates, dimen) ==
    FlattenLoop(coordinates, dimen, Len(coordinates), 0, 1)

\* Plane.__init__: the number of rows and of cells of a plane
NumRows(shape) == Prod(Front(shape))
RowWidth(shape) == shape[Len(shape)]
Size(shape) == Prod(shape)

\* ------------------------------------------------- neighbourhood factories
\* itertools.product([-1,0,1], repeat=n), in its order (last axis fastest)
RECURSIVE Product(_)
Product(n) ==
    IF n = 0 THEN << <<>> >>
    ELSE LET rest == Product(n - 1)
             m == Len(rest)
         IN [k \in 1..(3 * m) |->
               << ((k - 1) \div m) - 1 >> \o rest[((k - 1) % m) + 1]]

any(current) == \E i \in DOMAIN current : current[i] # 0

\* the dict built by offsets[k] = value for k in keys: the sequence of its
\* (key, value) pairs in insertion order; assigning a key that is already
\* there leaves it at its place
FromKeys(keys, value) ==
    LET first == SelectSeq([i \in DOMAIN keys |-> i],
                     LAMBDA i : \A j \in 1..(i - 1) : keys[j] # keys[i])
    IN [m \in DOMAIN first |-> <<keys[first[m]], value>>]

\* moore without the test of line 77
mooreWithCentre(shape, value) == FromKeys(Product(Len(shape)), value)

\* moore: every tuple of the product that passes any(current), in order
moore(shape, value) ==
    FromKeys(SelectSeq(Product(Len(shape)), any), value)

\* neumann: for each axis i, for j in [-1, 1]: variant[i] = j, and
\* variant[i] = 0 again after both
Variants(n) ==
    [m \in 1..(2 * n) |->
        [a \in 1..n |-> IF a = (m + 1) \div 2
                        THEN (IF m % 2 = 1 THEN -1 ELSE 1)
                        ELSE 0]]

neumann(shape, value) == FromKeys(Variants(Len(shape)), value)

\* -------------------------------------------------------- Configuration
\* Configuration.__init__: next_state, and per offset its expected state
\* and its flattened form.  keys keeps the coordinate deltas themselves.
\* next_state is [fn |-> FALSE, bit |-> b] for the constant b and
\* [fn |-> TRUE, bit |-> 0] for a callable, here the one returning the
\* current value of the cell.
\* ruleset.py:99 unpacks each flattened offset as (flat_offset, bit_offset):
\* pairs holds the flattening of all but the last coordinate over the row
\* axes, and the last coordinate.
Configuration(shape, next_state, offsets) ==
    [next_state |-> next_state,
     keys |-> [i \in DOMAIN offsets |-> offsets[i][1]],
     states |-> [i \in DOMAIN offsets |-> offsets[i][2]],
     offsets |-> [i \in DOMAIN offsets |-> flatten(offsets[i][1], shape)],
     pairs |-> [i \in DOMAIN offsets |->
                 <<flatten(Front(offsets[i][1]), Front(shape)),
                   offsets[i][1][Len(shape)]>>]]

Const(b) == [fn |-> FALSE, bit |-> b]
Current == [fn |-> TRUE, bit |-> 0]

\* configuration.py:53  indices = (f_index + self.offsets) % grid.size
Indices(config, f_index, size) ==
    [i \in DOMAIN config.offsets |-> (f_index + config.offsets[i]) % size]

\* np.count_nonzero(f_grid[indices] ^ states)
NonMatches(cells, indices, states) ==
    Cardinality({i \in DOMAIN indices : cells[indices[i]] # states[i]})

\* Ruleset._matches
matches(cells, indices, states) == NonMatches(cells, indices, states) = 0

\* Ruleset._tolerates; tolerance is the rational <<numerator, denominator>>:
\* non_matches / len(f_grid) >= tolerance
tolerates(cells, indices, states, tolerance) ==
    NonMatches(cells, indices, states) * tolerance[2]
        >= tolerance[1] * Cardinality(DOMAIN cells)

\* Ruleset._satisfies; the caller's predicate is one of a few named ones
satisfies(f_index, cells, indices, states, valid_func) ==
    CASE valid_func = "alive" -> cells[f_index] = 1
      [] valid_func = "even" -> f_index % 2 = 0
      [] OTHER -> FALSE

\* The verification function apply_to selects from the method
Vfunc(method, arg, f_index, cells, indices, states) ==
    CASE method = "MATCH" -> matches(cells, indices, states)
      [] method = "TOLERATE" -> tolerates(cells, indices, states, arg)
      [] method = "SATISFY" -> satisfies(f_index, cells, indices, states, arg)
      [] OTHER -> TRUE

\* Configuration.passes: (success, next state)
passes(config, f_index, cells, method, arg) ==
    LET indices == Indices(config, f_index, Cardinality(DOMAIN cells))
        success == Vfunc(method, arg, f_index, cells, indices, config.states)
    IN <<success,
         IF config.next_state.fn THEN cells[f_index]
         ELSE config.next_state.bit>>

\* ------------------------------------------------- Ruleset.apply_to, parts
\* plane.grid.flat as one array of cells, row after row
Cells(grid, shape) ==
    [f \in 0..(Size(shape) - 1) |->
        grid[f \div RowWidth(shape)][f % RowWidth(shape)]]

\* the cell Neighborhood(flat_index, bit_index, total) stands for
CellIndex(flat_index, bit_index, shape) ==
    flat_index * RowWidth(shape) + bit_index

\* Python's index rule for grid.flat[i]: -len <= i < len, negative from the end
InRange(i, len) == -len <= i /\ i < len

\* str(row): the row's bits as a string of characters, first bit first
RowStr(row) == [k \in 1..Cardinality(DOMAIN row) |-> row[k - 1]]

\* Python's slice bound: negative counts from the end, then clamped
SliceBound(x, len) ==
    IF x < 0 THEN (IF x + len < 0 THEN 0 ELSE x + len)
    ELSE (IF x > len THEN len ELSE x)

\* s[a:] and s[:b]
SliceFrom(s, a) == SubSeq(s, SliceBound(a, Len(s)) + 1, Len(s))
SliceTo(s, b) == SubSeq(s, 1, SliceBound(b, Len(s)))

\* ruleset.py:101  neighbor[bit_offset+1:] + neighbor[:bit_offset]
Rotated(neighbor, bit_offset) ==
    SliceFrom(neighbor, bit_offset + 1) \o SliceTo(neighbor, bit_offset)

\* int(s) of a string of decimal digits
RECURSIVE Decimal(_)
Decimal(s) ==
    IF s = <<>> THEN 0 ELSE Decimal(Front(s)) * 10 + s[Len(s)]

\* ruleset.py:99-101: whether building `neighboring' raises (IndexError on
\* a row index outside the array, ValueError on int(''))
NeighboringRaises(grid, shape, flat_index, config) ==
    \E i \in DOMAIN config.pairs :
        \/ ~InRange(flat_index + config.pairs[i][1], NumRows(shape))
        \/ Rotated(RowStr(grid[(flat_index + config.pairs[i][1])
                                  % NumRows(shape)]),
                   config.pairs[i][2]) = <<>>

Neighboring(grid, shape, flat_index, config) ==
    [i \in DOMAIN config.pairs |->
        Decimal(Rotated(RowStr(grid[(flat_index + config.pairs[i][1])
                                      % NumRows(shape)]),
                        config.pairs[i][2]))]

\* ruleset.py:105-108: the neighbours summed in chunks of 9, and the chunk
\* sums added column by column; column i of a sum is its decimal digit of
\* weight 10^(N-1-i)
ChunkSize == 9

Chunks(neighboring) ==
    [c \in 1..((Len(neighboring) + ChunkSize - 1) \div ChunkSize) |->
        SeqSum(SubSeq(neighboring, (c - 1) * ChunkSize + 1,
                      IF c * ChunkSize > Len(neighboring)
                      THEN Len(neighboring) ELSE c * ChunkSize))]

Digit(v, i, N) == (v \div Pow(10, N - 1 - i)) % 10

Totals(neighboring, N) ==
    [i \in 0..(N - 1) |->
        SeqSum([c \in DOMAIN Chunks(neighboring) |->
                  Digit(Chunks(neighboring)[c], i, N)])]

\* ruleset.py:111-113: the outcome of config.passes for every bit of the row
RowPasses(grid, shape, flat_index, config, method, arg) ==
    LET cells == Cells(grid, shape)
    IN [b \in 0..(RowWidth(shape) - 1) |->
          passes(config, CellIndex(flat_index, b, shape), cells, method, arg)]

\* every tested bit stays unresolved
KeepAll(to_update, outcome) == to_update

\* ruleset.py:116-120: the bits the configuration failed on, in order
NextUpdate(to_update, outcome) ==
    SelectSeq(to_update, LAMBDA b : ~outcome[b][1])

\* ruleset.py:114-115: the row after the configuration's writes
RowWritten(next_row, to_update, outcome) ==
    [b \in DOMAIN next_row |->
        IF b \in Range(to_update) /\ outcome[b][1] THEN outcome[b][2]
        ELSE next_row[b]]

\* ------------------------------------------------------------------ state
VARIABLES
    shape,       \* Plane.shape
    grid,        \* Plane.grid: row index -> row (bit index -> bit)
    ruleset,     \* the name of the Ruleset applied (see TheRuleset)
    pc,          \* where apply_to stands: idle, row, config, writeback
    flat_index,  \* the row being computed (ruleset.py:82)
    ci,          \* index of the next configuration of the row (ruleset.py:86)
    next_row,    \* ruleset.py:84
    to_update,   \* ruleset.py:85
    next_grid,   \* ruleset.py:66
    totals,      \* ruleset.py:105-108, of the configuration applied last
    wi,          \* the index i of the write-back loop (ruleset.py:126)
    calls,       \* number of apply_to calls made so far
    outcome,     \* how the last call ended: none, returned, raised (by
                 \* apply_to's own code), interrupted (from outside)
    grid0,       \* history: the plane when the current call started
    seed,        \* history: the plane as first set up
    writes,      \* history: per bit of the row, writes to next_row
    tests,       \* history: per bit of the row, configurations tested
    fn,          \* the function a direct call applies
    args,        \* its arguments
    result       \* its result, <<>> before the call

avars == <<shape, grid, ruleset, pc, flat_index, ci, next_row, to_update,
           next_grid, totals, wi, calls, outcome, grid0, seed, writes, tests>>
fvars == <<fn, args, result>>
vars == <<shape, grid, ruleset, pc, flat_index, ci, next_row, to_update,
          next_grid, totals, wi, calls, outcome, grid0, seed, writes,
          tests, fn, args, result>>

N == RowWidth(shape)
Bits == 0..(N - 1)
Rows == 0..(NumRows(shape) - 1)
Zeros == [b \in Bits |-> 0]

\* ------------------------------------------------------------- the inputs
Grids(sh) == [0..(NumRows(sh) - 1) -> [0..(RowWidth(sh) - 1) -> Bit]]

\* the two-dimensional shapes of at most MaxCells cells
Shapes2 ==
    {sh \in (1..MaxCells) \X (1..MaxCells) : sh[1] * sh[2] <= MaxCells}

Ruleset(method, arg, configurations) ==
    [method |-> method, arg |-> arg, configurations |-> configurations]

\* the rulesets applied, by name
RulesetNames ==
    {"empty", "first_match", "chain", "tolerate_neumann", "tolerate",
     "satisfy", "always_pass"}

RulesetNamed(name, sh) ==
    CASE name = "empty" -> Ruleset("MATCH", 0, <<>>)
      [] name = "first_match" ->
           Ruleset("MATCH", 0,
              << Configuration(sh, Const(1), << << <<0, 1>>, 1 >> >>),
                 Configuration(sh, Const(0), <<>>) >>)
      [] name = "chain" ->
           Ruleset("MATCH", 0,
              << Configuration(sh, Const(1), << << <<-1, 0>>, 1 >> >>),
                 Configuration(sh, Current, << << <<0, -1>>, 0 >> >>),
                 Configuration(sh, Const(0), << << <<-1, -1>>, 1 >> >>) >>)
      [] name = "tolerate_neumann" ->
           Ruleset("TOLERATE", <<1, 2>>,
              << Configuration(sh, Const(1), neumann(sh, 1)) >>)
      [] name = "tolerate" ->
           Ruleset("TOLERATE", <<1, 4>>,
              << Configuration(sh, Const(1),
                    << << <<0, 1>>, 1 >>, << <<-1, 0>>, 1 >> >>),
                 Configuration(sh, Const(0), << << <<0, -1>>, 0 >> >>) >>)
      [] name = "satisfy" ->
           Ruleset("SATISFY", "alive",
              << Configuration(sh, Const(0), << << <<0, -1>>, 1 >> >>) >>)
      [] OTHER ->
           Ruleset("ALWAYS_PASS", 0,
              << Configuration(sh, Const(1), <<>>),
                 Configuration(sh, Const(0), <<>>) >>)

\* The rule-string parser is not part of the sources; B3/S23 as ordered
\* exact-match configurations over the Moore neighbourhood: one per set of
\* three live neighbours (next state 1), one per set of two live neighbours
\* (next state: the cell's current value), then a configuration without
\* offsets that sets every other cell to 0.
\* all sequences of n bits with exactly k ones
RECURSIVE Combos(_, _)
Combos(n, k) ==
    IF k > n THEN <<>>
    ELSE IF n = 0 THEN << <<>> >>
    ELSE LET with == IF k = 0 THEN <<>> ELSE Combos(n - 1, k - 1)
             without == Combos(n - 1, k)
         IN [j \in DOMAIN with |-> Append(with[j], 1)]
            \o [j \in DOMAIN without |-> Append(without[j], 0)]

\* one configuration over the Moore offsets per such sequence, which gives
\* the expected states of the offsets in order
MaskedConfigs(sh, next_state, k) ==
    LET proto == Configuration(sh, next_state, moore(sh, 1))
        ms == Combos(Len(proto.keys), k)
    IN [j \in DOMAIN ms |-> [proto EXCEPT !.states = ms[j]]]

LifeShape == <<3, 3>>

LifeRuleset ==
    Ruleset("MATCH", 0,
            MaskedConfigs(LifeShape, Const(1), 3)
            \o MaskedConfigs(LifeShape, Current, 2)
            \o << Configuration(LifeShape, Const(0), <<>>) >>)

\* three live cells in one line, along a row or along a column
Blinkers ==
    {g \in Grids(LifeShape) :
        \/ \E r \in 0..2 : \A i, j \in 0..2 : g[i][j] = IF i = r THEN 1 ELSE 0
        \/ \E c \in 0..2 : \A i, j \in 0..2 : g[i][j] = IF j = c THEN 1 ELSE 0}

IsLife == shape = LifeShape /\ ruleset = "B3/S23"

\* the Ruleset object the plane is updated with
TheRuleset ==
    IF ruleset = "B3/S23" THEN LifeRuleset ELSE RulesetNamed(ruleset, shape)

\* outside a call apply_to has no locals
NoLocals ==
    /\ flat_index = 0 /\ ci = 1
    /\ next_row = <<>> /\ to_update = <<>> /\ next_grid = <<>>
    /\ totals = <<>> /\ wi = 0
    /\ writes = <<>> /\ tests = <<>>

\* the call ends (by return or by an exception): its locals are gone
Exit(how) ==
    /\ pc' = "idle"
    /\ outcome' = how
    /\ flat_index' = 0 /\ ci' = 1
    /\ next_row' = <<>> /\ to_update' = <<>> /\ next_grid' = <<>>
    /\ totals' = <<>> /\ wi' = 0
    /\ writes' = <<>> /\ tests' = <<>>

ApplyIdle == pc = "idle" /\ calls = 0 /\ outcome = "none" /\ NoLocals

NoCall == fn = "none" /\ args = <<>> /\ result = <<>>

Init ==
    /\ \/ /\ shape \in Shapes2
          /\ grid \in Grids(shape)
          /\ ruleset \in RulesetNames
       \/ /\ shape = LifeShape
          /\ grid \in Blinkers
          /\ ruleset = "B3/S23"
    /\ grid0 = grid
    /\ seed = grid
    /\ ApplyIdle
    /\ NoCall

\* ------------------------------------------------------------- apply_to
\* ruleset.py:66-82: a call starts; next_grid = []
Call ==
    /\ pc = "idle" /\ fn = "none"
    /\ calls < MaxCalls
    /\ calls' = calls + 1
    /\ grid0' = grid
    /\ pc' = "row"
    /\ outcome' = "none"
    /\ UNCHANGED <<shape, grid, ruleset, flat_index, ci, next_row, to_update,
                   next_grid, totals, wi, seed, writes, tests,
                   fn, args, result>>

\* ruleset.py:84-85: next_row = bitarray(self.N), whose content is not set
\* by the allocation; to_update = range(0, self.N)
BeginRow ==
    /\ pc = "row"
    /\ \E fresh \in [Bits -> Bit] : next_row' = fresh
    /\ to_update' = [k \in 1..N |-> k - 1]
    /\ ci' = 1
    /\ writes' = Zeros
    /\ tests' = Zeros
    /\ pc' = "config"
    /\ UNCHANGED <<shape, grid, ruleset, flat_index, next_grid, totals, wi,
                   calls, outcome, grid0, seed, fn, args, result>>

\* ruleset.py:86-120: one configuration applied to the unresolved bits;
\* an exception of lines 99-101 ends the call
ApplyConfig ==
    /\ pc = "config"
    /\ \E rs \in {TheRuleset} :
       /\ ci <= Len(rs.configurations)
       /\ \E config \in {rs.configurations[ci]} :
          IF NeighboringRaises(grid, shape, flat_index, config)
          THEN Exit("raised")
          ELSE \E passed \in {RowPasses(grid, shape, flat_index, config,
                                        rs.method, rs.arg)} :
               /\ totals' = Totals(Neighboring(grid, shape, flat_index,
                                               config), N)
               /\ next_row' = RowWritten(next_row, to_update, passed)
               /\ to_update' = NextUpdate(to_update, passed)
               /\ writes' = [b \in Bits |->
                               IF b \in Range(to_update) /\ passed[b][1]
                               THEN writes[b] + 1 ELSE writes[b]]
               /\ tests' = [b \in Bits |->
                              IF b \in Range(to_update)
                              THEN tests[b] + 1 ELSE tests[b]]
               /\ ci' = ci + 1
               /\ UNCHANGED <<pc, outcome, flat_index, next_grid, wi>>
    /\ UNCHANGED <<shape, grid, ruleset, calls, grid0, seed,
                   fn, args, result>>

\* the row stored into the plane as soon as it is computed
EndRowInPlace ==
    /\ pc = "config"
    /\ ci > Len(TheRuleset.configurations)
    /\ next_grid' = Append(next_grid, next_row)
    /\ grid' = [grid EXCEPT ![flat_index] = next_row]
    /\ flat_index' = flat_index + 1
    /\ pc' = IF flat_index + 1 < NumRows(shape) THEN "row" ELSE "writeback"
    /\ UNCHANGED <<shape, ruleset, ci, next_row, to_update, totals, wi,
                   calls, outcome, grid0, seed, writes, tests, fn, args,
                   result>>

\* ruleset.py:123: next_grid.append(next_row); the loop of line 82 goes on
\* to the next row, or ends
EndRow ==
    /\ pc = "config"
    /\ ci > Len(TheRuleset.configurations)
    /\ next_grid' = Append(next_grid, next_row)
    /\ flat_index' = flat_index + 1
    /\ pc' = IF flat_index + 1 < NumRows(shape) THEN "row" ELSE "writeback"
    /\ UNCHANGED <<shape, grid, ruleset, ci, next_row, to_update, totals, wi,
                   calls, outcome, grid0, seed, writes, tests, fn, args,
                   result>>

\* ruleset.py:126-127: plane.grid.flat[i] = next_grid[i], one row per
\* iteration; after the last one the call returns
WriteBack ==
    /\ pc = "writeback"
    /\ wi < NumRows(shape)
    /\ grid' = [grid EXCEPT ![wi] = next_grid[wi + 1]]
    /\ IF wi + 1 = NumRows(shape)
       THEN Exit("returned")
       ELSE /\ wi' = wi + 1
            /\ UNCHANGED <<pc, outcome, flat_index, ci, next_row, to_update,
                           next_grid, totals, writes, tests>>
    /\ UNCHANGED <<shape, ruleset, calls, grid0, seed, fn, args, result>>

\* an exception raised asynchronously inside the call (KeyboardInterrupt,
\* MemoryError) leaves apply_to at once; nothing in it catches or undoes
Interrupt ==
    /\ pc # "idle"
    /\ Exit("interrupted")
    /\ UNCHANGED <<shape, grid, ruleset, calls, grid0, seed,
                   fn, args, result>>

Next ==
    \/ Call
    \/ BeginRow
    \/ ApplyConfig
    \/ EndRow
    \/ WriteBack
    \/ Interrupt

Spec == Init /\ [][Next]_vars

\* ------------------------------------------------------- direct calls
\* Plane.__init__: a plane of zeros
ZeroPlane(sh) == [r \in 0..(NumRows(sh) - 1) |-> [b \in 0..(RowWidth(sh) - 1) |-> 0]]

\* shapes of 1..MaxDim axes of 1..MaxExtent cells each
ShapesN == UNION {Tuples(1..MaxExtent, n) : n \in 1..MaxDim}

\* coordinates inside the plane and one step outside it on either side
Coordinates(sh) == Tuples((-1)..MaxExtent, Len(sh))

\* the offset dicts the configurations of direct calls are built from
OffsetDicts(sh) ==
    { <<>>,
      << << <<0, 1>>, 1 >> >>,
      << << <<0, -1>>, 1 >>, << <<0, 1>>, 0 >> >>,
      << << <<-1, 0>>, 1 >>, << <<1, 0>>, 1 >> >>,
      moore(sh, 1),
      neumann(sh, 0) }

Tolerances == {<<0, 1>>, <<1, 4>>, <<1, 2>>, <<1, 1>>}

Methods ==
    {<<"MATCH", 0>>, <<"ALWAYS_PASS", 0>>} \cup {<<"TOLERATE", t>> : t \in Tolerances}

NoApply ==
    /\ pc = "idle" /\ calls = 0 /\ outcome = "none" /\ NoLocals
    /\ ruleset = "none" /\ grid0 = grid /\ seed = grid

InitFn ==
    /\ result = <<>>
    /\ \/ /\ fn = "flatten"
          /\ shape \in ShapesN
          /\ grid = ZeroPlane(shape)
          /\ \E c \in Coordinates(shape) : args = [coordinates |-> c]
       \/ /\ fn = "neighbourhoods"
          /\ shape \in ShapesN
          /\ grid = ZeroPlane(shape)
          /\ \E v \in Bit : args = [value |-> v]
       \/ /\ fn = "passes"
          /\ shape \in Shapes2
          /\ grid \in Grids(shape)
          /\ \E d \in OffsetDicts(shape), ns \in {Const(0), Const(1), Current},
                f \in 0..(Size(shape) - 1), m \in Methods :
                args = [config |-> Configuration(shape, ns, d),
                        f_index |-> f, method |-> m[1], arg |-> m[2]]
    /\ NoApply

\* Plane._flatten(coordinates)
CallFlatten ==
    /\ fn = "flatten" /\ result = <<>>
    /\ result' = <<flatten(args.coordinates, shape)>>
    /\ UNCHANGED <<avars, fn, args>>

\* Configuration.passes(f_index, grid, vfunc, *args)
CallPasses ==
    /\ fn = "passes" /\ result = <<>>
    /\ result' = <<passes(args.config, args.f_index, Cells(grid, shape),
                          args.method, args.arg)>>
    /\ UNCHANGED <<avars, fn, args>>

\* Configuration.moore(grid, value)
CallMoore ==
    /\ fn = "neighbourhoods" /\ result = <<>>
    /\ result' = <<moore(shape, args.value)>>
    /\ UNCHANGED <<avars, fn, args>>

\* Configuration.neumann(grid, value), called after moore
CallNeumann ==
    /\ fn = "neighbourhoods" /\ Len(result) = 1
    /\ result' = Append(result, neumann(shape, args.value))
    /\ UNCHANGED <<avars, fn, args>>

NextFn ==
    \/ CallFlatten
    \/ CallPasses
    \/ CallMoore
    \/ CallNeumann

SpecFn == InitFn /\ [][NextFn]_vars

\* ------------------------------------------------- what the claims speak of
\* the flat index of coordinates taken modulo the extent of their axis
RECURSIVE FlattenLoopWrapped(_, _, _, _, _)
FlattenLoopWrapped(coordinates, dimen, i, index, gridprod) ==
    IF i = 0 THEN index
    ELSE FlattenLoopWrapped(coordinates, dimen, i - 1,
                     index + (coordinates[i] % dimen[i]) * gridprod,
                     gridprod * dimen[i])

\* the mismatches divided by the number of neighbours reach the tolerance
toleratesPerNeighbour(cells, indices, states, tolerance) ==
    NonMatches(cells, indices, states) * tolerance[2]
        >= tolerance[1] * Len(indices)

\* the coordinates of flat cell index f, and the cell at f + key on the torus
Unflatten(f, sh) ==
    [a \in DOMAIN sh |-> (f \div Prod(SubSeq(sh, a + 1, Len(sh)))) % sh[a]]

TorusCell(f, key, sh) ==
    LET c == Unflatten(f, sh)
    IN FlattenLoopWrapped([a \in DOMAIN sh |-> c[a] + key[a]], sh,
                          Len(sh), 0, 1)

\* the outcome of configuration i of ruleset rs on cell (r, b) of the plane
\* whose flat array of cells is g
PassesAt(rs, g, r, b, i) ==
    passes(rs.configurations[i], CellIndex(r, b, shape), g,
           rs.method, rs.arg)

\* the lowest index of a configuration that passes on the cell, 0 if none
FirstPassing(rs, g, r, b) ==
    LET ok == {i \in DOMAIN rs.configurations : PassesAt(rs, g, r, b, i)[1]}
    IN IF ok = {} THEN 0 ELSE CHOOSE i \in ok : \A j \in ok : i <= j

Computing == pc \in {"row", "config"}

\* C1 (generation barrier): while the rows of a call are being computed the
\* plane still is the plane the call started with, so every neighbour read
\* is a prior-generation value; no row is stored before all rows are
\* computed; and every resolved bit of every computed row is the value
\* decided on the prior generation alone.
C1_GenerationBarrier ==
  \A rs \in {TheRuleset} : \A cells0 \in {Cells(grid0, shape)} :
    /\ Computing => grid = grid0
    /\ (pc = "writeback" /\ wi = 0) =>
          (grid = grid0 /\ Len(next_grid) = NumRows(shape))
    /\ (Computing \/ pc = "writeback") =>
          \A r \in Rows : \A b \in Bits :
             (r < Len(next_grid) /\ FirstPassing(rs, cells0, r, b) # 0) =>
                next_grid[r + 1][b] =
                    PassesAt(rs, cells0, r, b, FirstPassing(rs, cells0, r, b))[2]

\* a call on a plane of several rows, with a configuration that reads
\* another row, has computed every row, each different from its old row,
\* and has stored none
C1_Witness ==
  \E rs \in {TheRuleset} : \E cells0 \in {Cells(grid0, shape)} :
    /\ pc = "writeback" /\ wi = 0
    /\ NumRows(shape) >= 2
    /\ \E i \in DOMAIN rs.configurations :
          \E k \in DOMAIN rs.configurations[i].pairs :
             rs.configurations[i].pairs[k][1] # 0
    /\ \A r \in Rows : next_grid[r + 1] # grid0[r]

\* C2 (first match wins): within a row, after any number of configurations,
\* a bit whose lowest passing configuration has been applied is resolved,
\* holds that configuration's next state, was written exactly once and was
\* tested by no later configuration; every other bit is still unresolved,
\* unwritten and was tested by every configuration applied so far.
C2_FirstMatchWins ==
  \A rs \in {TheRuleset} : \A cells0 \in {Cells(grid0, shape)} :
    pc = "config" =>
      \A b \in Bits :
         \A first \in {FirstPassing(rs, cells0, flat_index, b)} :
            IF first # 0 /\ first < ci
            THEN /\ b \notin Range(to_update)
                 /\ next_row[b] = PassesAt(rs, cells0, flat_index, b, first)[2]
                 /\ writes[b] = 1
                 /\ tests[b] = first
            ELSE /\ b \in Range(to_update)
                 /\ writes[b] = 0
                 /\ tests[b] = ci - 1

\* all configurations of a list of several have been applied to a row in
\* which one bit was resolved by the first although a later one passes on
\* it with another next state, and another bit was resolved by a later one
C2_Witness ==
  \E rs \in {TheRuleset} : \E cells0 \in {Cells(grid0, shape)} :
    /\ pc = "config"
    /\ ci > Len(rs.configurations)
    /\ \E b \in Bits :
          /\ FirstPassing(rs, cells0, flat_index, b) = 1
          /\ \E j \in DOMAIN rs.configurations :
                /\ j > 1
                /\ PassesAt(rs, cells0, flat_index, b, j)[1]
                /\ PassesAt(rs, cells0, flat_index, b, j)[2]
                     # PassesAt(rs, cells0, flat_index, b, 1)[2]
    /\ \E b \in Bits : FirstPassing(rs, cells0, flat_index, b) > 1

\* C3 (no-rule default): when a call has returned, every cell on which no
\* configuration passed holds the value it held before the call.
C3_NoRuleDefault ==
  \A rs \in {TheRuleset} : \A cells0 \in {Cells(grid0, shape)} :
    (pc = "idle" /\ outcome = "returned") =>
       \A r \in Rows : \A b \in Bits :
          FirstPassing(rs, cells0, r, b) = 0 => grid[r][b] = grid0[r][b]

\* C7 (blinker): on the 3x3 plane seeded with a blinker, under B3/S23, the
\* first call completes a generation that differs from the seed and the
\* second call completes one that equals the seed.
C7_BlinkerPeriod2 ==
    (IsLife /\ pc = "idle" /\ outcome \in {"returned", "raised"}) =>
       /\ calls = 1 => (outcome = "returned" /\ grid # seed)
       /\ calls = 2 => (outcome = "returned" /\ grid = seed)

\* C8 (no partial generation): the plane always is the complete prior
\* generation or the complete next one, and after a call that failed it is
\* the prior one.
C8_NoPartialGeneration ==
    /\ pc # "idle" =>
          \/ grid = grid0
          \/ /\ Len(next_grid) = NumRows(shape)
             /\ \A r \in Rows : grid[r] = next_grid[r + 1]
    /\ (pc = "idle" /\ outcome \in {"raised", "interrupted"}) =>
          grid = grid0

\* C10 (word-parallel counting): after a configuration has been applied to
\* a row, the total of every column is the number of the configuration's
\* offsets whose neighbour cell, taken on the torus, is 1, and every
\* neighbour row was rotated into a word of the row's width.
C10_ColumnTotals ==
  \A rs \in {TheRuleset} : \A cells0 \in {Cells(grid0, shape)} :
    (pc = "config" /\ ci > 1) =>
       \A cfg \in {rs.configurations[ci - 1]} :
          /\ \A b \in Bits :
               totals[b] =
                 Cardinality({k \in DOMAIN cfg.keys :
                    cells0[TorusCell(
                        CellIndex(flat_index, b, shape), cfg.keys[k], shape)]
                      = 1})
          /\ \A k \in DOMAIN cfg.pairs :
               Len(Rotated(RowStr(grid0[(flat_index + cfg.pairs[k][1])
                                          % NumRows(shape)]),
                           cfg.pairs[k][2])) = N

Returned(f) == fn = f /\ result # <<>>

\* C4 (wraparound): flatten of the coordinates equals flatten of the
\* coordinates with the shape added component-wise, and is an index inside
\* the plane.
C4_FlattenWraps ==
    Returned("flatten") =>
       /\ result[1] =
            flatten([a \in DOMAIN shape |-> args.coordinates[a] + shape[a]],
                    shape)
       /\ 0 <= result[1] /\ result[1] < Size(shape)

\* C5 (tolerance): under TOLERATE a configuration with neighbours passes
\* exactly when its mismatches divided by its number of neighbours are at
\* least the tolerance.
C5_ToleranceFraction ==
    (Returned("passes") /\ args.method = "TOLERATE"
       /\ Len(args.config.offsets) > 0) =>
       \A cells \in {Cells(grid, shape)} :
          result[1][1] =
             toleratesPerNeighbour(cells,
                 Indices(args.config, args.f_index, Size(shape)),
                 args.config.states, args.arg)

\* C6 (exact match): under MATCH a configuration passes exactly when, for
\* every offset, the cell at cell + offset on the torus holds the expected
\* bit.
C6_ExactMatchToroidal ==
    (Returned("passes") /\ args.method = "MATCH") =>
       \A cells \in {Cells(grid, shape)} :
          result[1][1] =
             (\A k \in DOMAIN args.config.keys :
                 cells[TorusCell(args.f_index, args.config.keys[k], shape)]
                    = args.config.states[k])

Keys(d) == {d[i][1] : i \in DOMAIN d}

\* C9 (neighbourhoods): moore gives 3^N - 1 pairwise distinct offsets, all
\* of {-1,0,1}^N but the zero offset; neumann gives 2N pairwise distinct
\* offsets, each with one component -1 or 1 and the others 0; every offset
\* is mapped to the given value.
C9_Neighbourhoods ==
    fn = "neighbourhoods" =>
       \A n \in {Len(shape)} : \A zero \in {[a \in 1..n |-> 0]} :
       /\ Len(result) >= 1 =>
            \A d \in {result[1]} :
               /\ Len(d) = Pow(3, n) - 1
               /\ Cardinality(Keys(d)) = Len(d)
               /\ Keys(d) = Tuples({-1, 0, 1}, n) \ {zero}
               /\ \A i \in DOMAIN d : d[i][2] = args.value
       /\ Len(result) = 2 =>
            \A d \in {result[2]} :
               /\ Len(d) = 2 * n
               /\ Cardinality(Keys(d)) = Len(d)
               /\ Keys(d) =
                    {k \in Tuples({-1, 0, 1}, n) :
                       Cardinality({a \in 1..n : k[a] # 0}) = 1}
               /\ zero \notin Keys(d)
               /\ \A i \in DOMAIN d : d[i][2] = args.value

\* both factories have returned for a shape of several axes
C9_Witness ==
    /\ fn = "neighbourhoods"
    /\ Len(result) = 2
    /\ Len(shape) >= 2
    /\ Len(result[1]) >= 8
    /\ Len(result[2]) >= 4

====
